---- MODULE Spec2Model ----
(***************************************************************************)
(* A model of the slash-command bot in src/main.py: the /slack/events      *)
(* dispatcher, the three command handlers, the fuzzy user lookup           *)
(* find_user_id_by_display_name and the difflib similarity ratio it ranks  *)
(* candidates with.                                                        *)
(*                                                                         *)
(* Python strings are sequences of one-character strings, so that split,   *)
(* lstrip, lower, slicing, "in" and the matcher are computed as the code   *)
(* computes them.  None is the value NoneValue.  A formatted string        *)
(* (f-string or literal) used as a response or message body is the record  *)
(* [fmt, args]: the template and the values substituted into it.           *)
(***************************************************************************)
EXTENDS Integers, Sequences, FiniteSets, TLC

VARIABLES
    pc,          \* "idle": waiting for a call; "done": the call has returned
    request,     \* the inputs of the call in progress
    parts,       \* the handler's local: text.split(" ", n)
    found_id,    \* the handler's local / the lookup's return value
    to_mention,  \* the handler's local
    calls,       \* the external calls attempted during the request, in order
    sheet,       \* the rows worksheet.append_row has written during the request
    posted,      \* the messages chat.postMessage has been sent during the request
    response,    \* what the HTTP client gets
    directory,   \* the users.list reply consulted (NotAsked when none was)
    history,     \* the conversations.history reply consulted (NotAsked when none was)
    score        \* the ratio computed by the last SequenceMatcher call

vars == <<pc, request, parts, found_id, to_mention, calls, sheet, posted,
          response, directory, history, score>>

----------------------------------------------------------------------------
(* Bounds of the model *)

\* longest string handed to the matcher in SpecScore
MaxStrLen == 4
\* longest users.list reply
MaxMembers == 2
\* longest lookup query in SpecFind
MaxQueryLen == 2
\* most words in a payload text
MaxWords == 3
\* most spaces between two words of a payload text
MaxGap == 2

----------------------------------------------------------------------------
(* Python values and string operations *)

NoneValue == <<"None">>
NotAsked == [kind |-> "not asked", members |-> <<>>]

SP == " "

\* str.lower() on one character of the model's alphabet
LowerChar(c) ==
    CASE c = "A" -> "a"
      [] c = "B" -> "b"
      [] c = "G" -> "g"
      [] c = "E" -> "e"
      [] c = "T" -> "t"
      [] c = "U" -> "u"
      [] OTHER -> c

Lower(s) == [i \in 1..Len(s) |-> LowerChar(s[i])]

\* a in b
IsIn(a, b) ==
    \E i \in 0..(Len(b) - Len(a)) : SubSeq(b, i + 1, i + Len(a)) = a

\* s.startswith(p), s.endswith(p)
StartsWith(s, p) == Len(s) >= Len(p) /\ SubSeq(s, 1, Len(p)) = p
EndsWith(s, p) == Len(s) >= Len(p) /\ SubSeq(s, Len(s) - Len(p) + 1, Len(s)) = p

\* s.lstrip('@')
RECURSIVE LStripAt(_)
LStripAt(s) ==
    IF s # <<>> /\ Head(s) = "@" THEN LStripAt(Tail(s)) ELSE s

\* the index of the first " " in s, 0 when there is none
FirstSpace(s) ==
    IF \E i \in 1..Len(s) : s[i] = SP
    THEN CHOOSE i \in 1..Len(s) : s[i] = SP /\ \A j \in 1..(i - 1) : s[j] # SP
    ELSE 0

\* a variant of Split, str.split(None, maxsplit): runs of spaces separate and
\* leading spaces are dropped
RECURSIVE SplitRuns(_, _)
SplitRuns(s, maxsplit) ==
    IF s # <<>> /\ Head(s) = SP THEN SplitRuns(Tail(s), maxsplit)
    ELSE IF s = <<>> THEN <<>>
    ELSE IF maxsplit = 0 \/ FirstSpace(s) = 0 THEN <<s>>
    ELSE <<SubSeq(s, 1, FirstSpace(s) - 1)>>
         \o SplitRuns(SubSeq(s, FirstSpace(s) + 1, Len(s)), maxsplit - 1)

\* s.split(" ", maxsplit): every single " " separates, empty fields are kept
RECURSIVE Split(_, _)
Split(s, maxsplit) ==
    IF maxsplit = 0 \/ FirstSpace(s) = 0 THEN <<s>>
    ELSE <<SubSeq(s, 1, FirstSpace(s) - 1)>>
         \o Split(SubSeq(s, FirstSpace(s) + 1, Len(s)), maxsplit - 1)

\* f"<@{user_id}>"
Mention(user_id) == <<"<", "@">> \o user_id \o <<">">>

----------------------------------------------------------------------------
(* difflib.SequenceMatcher(None, a, b).ratio(), for strings shorter than   *)
(* the 200 characters at which difflib's popularity heuristic starts       *)

\* the blocks a[i+1..i+k] = b[j+1..j+k] inside a[alo+1..ahi], b[blo+1..bhi]
Blocks(a, b, alo, ahi, blo, bhi) ==
    {t \in (alo..ahi) \X (blo..bhi) \X (0..(ahi - alo)) :
        /\ t[1] + t[3] <= ahi
        /\ t[2] + t[3] <= bhi
        /\ SubSeq(a, t[1] + 1, t[1] + t[3]) = SubSeq(b, t[2] + 1, t[2] + t[3])}

\* the longest of the blocks bs; of the longest the one that starts earliest
\* in a, and of those the one that starts earliest in b
LongestEarliest(bs, kmax, alo, blo) ==
    IF kmax = 0 THEN <<alo, blo, 0>>
    ELSE CHOOSE t \in bs :
            /\ t[3] = kmax
            /\ \A u \in bs : u[3] = kmax =>
                  \/ t[1] < u[1]
                  \/ (t[1] = u[1] /\ t[2] <= u[2])

LongestOf(bs, alo, blo) ==
    LongestEarliest(bs, CHOOSE k \in 0..Cardinality(bs) :
                            /\ \E t \in bs : t[3] = k
                            /\ \A t \in bs : t[3] <= k,
                    alo, blo)

\* find_longest_match(alo, ahi, blo, bhi)
find_longest_match(a, b, alo, ahi, blo, bhi) ==
    LongestOf(Blocks(a, b, alo, ahi, blo, bhi), alo, blo)

\* get_matching_blocks(): the total size of the blocks found by matching the
\* longest block m = <<i, j, k>> and then, recursively, the pieces to its left
\* and to its right
RECURSIVE Matches(_, _, _, _, _, _)
MatchesAround(a, b, alo, ahi, blo, bhi, m) ==
    IF m[3] = 0 THEN 0
    ELSE m[3]
         + (IF alo < m[1] /\ blo < m[2]
            THEN Matches(a, b, alo, m[1], blo, m[2]) ELSE 0)
         + (IF m[1] + m[3] < ahi /\ m[2] + m[3] < bhi
            THEN Matches(a, b, m[1] + m[3], ahi, m[2] + m[3], bhi) ELSE 0)

Matches(a, b, alo, ahi, blo, bhi) ==
    MatchesAround(a, b, alo, ahi, blo, bhi,
                  find_longest_match(a, b, alo, ahi, blo, bhi))

\* a variant of Ratio: the matches counted against the first string alone
RatioOfFirst(a, b) ==
    IF Len(a) = 0 THEN <<1, 1>>
    ELSE <<2 * Matches(a, b, 0, Len(a), 0, Len(b)), 2 * Len(a)>>

\* ratio(): 2.0 * matches / (len(a) + len(b)), 1.0 when both are empty; the
\* float is the fraction <<numerator, denominator>>
Ratio(a, b) ==
    IF Len(a) + Len(b) = 0 THEN <<1, 1>>
    ELSE <<2 * Matches(a, b, 0, Len(a), 0, Len(b)), Len(a) + Len(b)>>

\* comparisons of two ratios as Python compares the floats
RatioGT(x, y) == x[1] * y[2] > y[1] * x[2]
RatioEQ(x, y) == x[1] * y[2] = y[1] * x[2]

Zero == <<0, 1>>

----------------------------------------------------------------------------
(* find_user_id_by_display_name *)

USLACKBOT == <<"U", "S", "L", "A", "C", "K", "B", "O", "T">>

\* two_way_partial(a, b)
two_way_partial(a, b) == IsIn(a, b) \/ IsIn(b, a)

\* f"{display_nm} {real_nm} {username}".lower()
combo_str(member) ==
    Lower(member.display_name \o <<SP>> \o member.real_name \o <<SP>> \o member.name)

\* a variant of Skipped that forgets the is_bot flag
SkippedNoBot(member) == member.id = USLACKBOT \/ member.deleted

\* the two "continue" tests of the filtering loop
Skipped(member) == member.id = USLACKBOT \/ member.deleted \/ member.is_bot

\* the list built by the filtering loop
Candidates(name_lower, members) ==
    SelectSeq(members,
              LAMBDA m : ~Skipped(m) /\ two_way_partial(name_lower, combo_str(m)))

\* a variant of InitialBestScore: a cut-off of one half
InitialBestScoreHalf == <<1, 2>>

\* best_score = 0.0
InitialBestScore == Zero

\* a variant of Better: a later candidate with an equal score replaces the best
BetterOrEqual(ratio, best_score) == ~RatioGT(best_score, ratio)

\* ratio > best_score
Better(ratio, best_score) == RatioGT(ratio, best_score)

\* the scoring loop from candidate i on; best_user is an index into
\* candidates, 0 for None
RECURSIVE ScoringLoop(_, _, _, _, _)
ScoringStep(name_lower, candidates, i, best_user, best_score, ratio) ==
    IF Better(ratio, best_score)
    THEN ScoringLoop(name_lower, candidates, i + 1, i, ratio)
    ELSE ScoringLoop(name_lower, candidates, i + 1, best_user, best_score)

ScoringLoop(name_lower, candidates, i, best_user, best_score) ==
    IF i > Len(candidates) THEN best_user
    ELSE ScoringStep(name_lower, candidates, i, best_user, best_score,
                     Ratio(name_lower, combo_str(candidates[i])))

\* lines 306-335: the return value, given the candidates
BestOf(name_lower, candidates) ==
    IF candidates = <<>> THEN NoneValue
    ELSE IF ScoringLoop(name_lower, candidates, 1, 0, InitialBestScore) # 0
         THEN candidates[ScoringLoop(name_lower, candidates, 1, 0, InitialBestScore)].id
         ELSE NoneValue

\* find_user_id_by_display_name(name), given the reply users.list makes:
\* [kind |-> "ok", members], [kind |-> "error"] ({"ok": false}) or
\* [kind |-> "raise"] (requests.get or resp.json() raises).  The result is
\* [raised, id]: whether the exception left the function, and the value
\* returned.
find_user_id_by_display_name(name, reply) ==
    IF reply.kind = "raise" THEN [raised |-> TRUE, id |-> NoneValue]
    ELSE IF reply.kind # "ok" THEN [raised |-> FALSE, id |-> NoneValue]
    ELSE [raised |-> FALSE,
          id |-> BestOf(Lower(name), Candidates(Lower(name), reply.members))]

----------------------------------------------------------------------------
(* Responses and the external collaborators *)

\* make_response(body, status); body is the template fmt with args filled in
Resp(status, fmt, args) ==
    [status |-> status, fmt |-> fmt, args |-> args, unhandled |-> FALSE]

\* what the client gets when an exception leaves the view function
Unhandled ==
    [status |-> 500, fmt |-> "Internal Server Error", args |-> <<>>,
     unhandled |-> TRUE]

NoResponse == [status |-> 0, fmt |-> "", args |-> <<>>, unhandled |-> FALSE]

\* the global worksheet after init_gspread() has run at import
worksheet == "sheet1"

\* store_in_sheet(row_data) at time now; appendOk says whether
\* worksheet.append_row returns (TRUE) or raises (FALSE)
store_in_sheet(row_data, now, appendOk) ==
    IF worksheet = "None"
    THEN [raised |-> FALSE, calls |-> <<>>, sheet |-> <<>>]
    ELSE [raised |-> ~appendOk,
          calls |-> <<"append_row">>,
          sheet |-> IF appendOk THEN <<Append(row_data, now)>> ELSE <<>>]

\* post_to_slack_channel(channel, text); postReply is "ok", "error" (the
\* reply carries an error, which is not read) or "raise" (requests.post raises)
post_to_slack_channel(channel, text, postReply) ==
    [raised |-> postReply = "raise",
     calls |-> <<"chat.postMessage">>,
     posted |-> IF postReply = "ok"
                THEN <<[channel |-> channel, text |-> text]>> ELSE <<>>]

\* get_notes from line 236 on: the response, given the matching messages
NotesFound(target, matching) ==
    IF matching = <<>>
    THEN Resp(200, "No notes found referencing {}.", <<target>>)
    ELSE Resp(200, "Here are notes referencing {}:\n{}", <<target>> \o matching)

\* get_notes(channel_id, target), given the reply conversations.history makes
get_notes(channel_id, target, reply) ==
    IF reply.kind = "raise" THEN Unhandled
    ELSE IF reply.kind # "ok" THEN Resp(200, "Could not retrieve messages.", <<>>)
    ELSE NotesFound(target, SelectSeq(reply.messages, LAMBDA t : IsIn(target, t)))

----------------------------------------------------------------------------
(* The command handlers.  Each gives the request's outcome: the locals the  *)
(* properties read, the external calls made and the response.               *)

MypraiseUsage ==
    "Usage: /mypraise <@UserID> Value Message\nor: /mypraise @Name Value Message\nExample: /mypraise @Ariel Performance Great job!"
MyfeedbackUsage ==
    "Usage: /myfeedback <@UserID> Feedback or /myfeedback @Name Feedback"
MynotezGetUsage == "Usage: /mynotez get @Name"
MynotezNoteUsage == "Usage: /mynotez @Name Note text"

Outcome(p, fid, tom, cs, sh, po, resp, dir, hist) ==
    [parts |-> p, found_id |-> fid, to_mention |-> tom, calls |-> cs,
     sheet |-> sh, posted |-> po, response |-> resp, directory |-> dir,
     history |-> hist]

\* a variant of UsageOutcome: the usage text sent as a client error
UsageOutcomeBadRequest(ps, usage) ==
    Outcome(ps, NoneValue, NoneValue, <<>>, <<>>, <<>>,
            Resp(400, usage, <<>>), NotAsked, NotAsked)

\* return make_response(usage, 200), before anything else was done
UsageOutcome(ps, usage) ==
    Outcome(ps, NoneValue, NoneValue, <<>>, <<>>, <<>>,
            Resp(200, usage, <<>>), NotAsked, NotAsked)

\* typed_person.startswith("<@U") and typed_person.endswith(">")
IsExactMention(typed_person) ==
    StartsWith(typed_person, <<"<", "@", "U">>) /\ EndsWith(typed_person, <<">">>)

\* a variant of FallbackMention: the stripped display name
FallbackMentionStripped(typed_person) == LStripAt(typed_person)

\* to_mention = typed_person, when no user id was found
FallbackMention(typed_person) == typed_person

\* a variant of MentionId that strips "<@U" and ">"
MentionIdNoU(typed_person) == SubSeq(typed_person, 4, Len(typed_person) - 1)

\* typed_person[2:-1]
MentionId(typed_person) == SubSeq(typed_person, 3, Len(typed_person) - 1)

\* lines 117-123: the locals after the lookup has given r
FuzzyResolution(typed_person, r, dirReply) ==
    [raised |-> r.raised,
     found_id |-> r.id,
     to_mention |-> IF r.raised THEN NoneValue
                    ELSE IF r.id # NoneValue /\ r.id # <<>>
                         THEN Mention(r.id)
                         ELSE FallbackMention(typed_person),
     calls |-> <<"users.list">>,
     directory |-> dirReply]

\* the resolution of typed_person that /mypraise and /myfeedback share:
\* the exact mention, or else the fuzzy lookup
ResolvePerson(typed_person, dirReply) ==
    IF IsExactMention(typed_person)
    THEN [raised |-> FALSE,
          found_id |-> MentionId(typed_person),
          to_mention |-> typed_person,
          calls |-> <<>>,
          directory |-> NotAsked]
    ELSE FuzzyResolution(typed_person,
             find_user_id_by_display_name(LStripAt(typed_person), dirReply),
             dirReply)

\* len(parts) < 3
PraiseArity == 3

\* handle_mypraise from line 134 on: the post po and the response
PraisePosted(ps, res, st, po) ==
    Outcome(ps, res.found_id, res.to_mention,
            res.calls \o st.calls \o po.calls, st.sheet, po.posted,
            IF po.raised THEN Unhandled
            ELSE Resp(200, "Praise noted and posted to #s44_core_team!", <<>>),
            res.directory, NotAsked)

\* handle_mypraise from line 126 on: the ledger row st, then the post
PraiseStored(ps, from_mention, res, st, postReply) ==
    IF st.raised
    THEN Outcome(ps, res.found_id, res.to_mention, res.calls \o st.calls,
                 st.sheet, <<>>, Unhandled, res.directory, NotAsked)
    ELSE PraisePosted(ps, res, st,
             post_to_slack_channel("#s44_core_team",
                 [fmt |-> "{} praised {} for *{}*:\n> {}",
                  args |-> <<from_mention, res.to_mention, ps[2], ps[3]>>],
                 postReply))

\* handle_mypraise from line 109 on: the resolution res, then the ledger
PraiseResolved(ps, from_mention, res, now, appendOk, postReply) ==
    IF res.raised
    THEN Outcome(ps, res.found_id, res.to_mention, res.calls, <<>>, <<>>,
                 Unhandled, res.directory, NotAsked)
    ELSE PraiseStored(ps, from_mention, res,
             store_in_sheet(<<"praise", from_mention, res.to_mention, ps[2], ps[3]>>,
                            now, appendOk),
             postReply)

\* handle_mypraise from line 97 on: typed_person, praise_value and
\* praise_message are parts[0], parts[1] and parts[2]
PraiseParsed(from_user_id, ps, dirReply, now, appendOk, postReply) ==
    IF Len(ps) < PraiseArity
    THEN UsageOutcome(ps, MypraiseUsage)
    ELSE PraiseResolved(ps, Mention(from_user_id), ResolvePerson(ps[1], dirReply),
                        now, appendOk, postReply)

\* handle_mypraise(from_user_id, text)
handle_mypraise(from_user_id, text, dirReply, now, appendOk, postReply) ==
    PraiseParsed(from_user_id, Split(text, 2), dirReply, now, appendOk, postReply)

\* a variant of FeedbackStored that announces the feedback as /mypraise
\* announces praise
FeedbackStoredAndPosted(ps, from_mention, res, st) ==
    Outcome(ps, res.found_id, res.to_mention,
            res.calls \o st.calls \o <<"chat.postMessage">>, st.sheet,
            <<[channel |-> "#s44_core_team",
               text |-> [fmt |-> "{} gave feedback to {}:\n> {}",
                         args |-> <<from_mention, res.to_mention, ps[2]>>]]>>,
            IF st.raised THEN Unhandled
            ELSE Resp(200, "Feedback saved (private).", <<>>),
            res.directory, NotAsked)

\* handle_myfeedback from line 175 on: the ledger row st and the response
FeedbackStored(ps, from_mention, res, st) ==
    Outcome(ps, res.found_id, res.to_mention, res.calls \o st.calls,
            st.sheet, <<>>,
            IF st.raised THEN Unhandled
            ELSE Resp(200, "Feedback saved (private).", <<>>),
            res.directory, NotAsked)

\* handle_myfeedback from line 160 on: the resolution res, then the ledger
FeedbackResolved(ps, from_mention, res, now, appendOk) ==
    IF res.raised
    THEN Outcome(ps, res.found_id, res.to_mention, res.calls, <<>>, <<>>,
                 Unhandled, res.directory, NotAsked)
    ELSE FeedbackStored(ps, from_mention, res,
             store_in_sheet(<<"feedback", from_mention, res.to_mention, <<>>, ps[2]>>,
                            now, appendOk))

\* handle_myfeedback from line 151 on: typed_person and feedback_message are
\* parts[0] and parts[1]
FeedbackParsed(from_user_id, ps, dirReply, now, appendOk) ==
    IF Len(ps) < 2
    THEN UsageOutcome(ps, MyfeedbackUsage)
    ELSE FeedbackResolved(ps, Mention(from_user_id), ResolvePerson(ps[1], dirReply),
                          now, appendOk)

\* handle_myfeedback(from_user_id, text)
handle_myfeedback(from_user_id, text, dirReply, now, appendOk) ==
    FeedbackParsed(from_user_id, Split(text, 1), dirReply, now, appendOk)

\* handle_mynotez from line 210 on: the post po and the response
NotePosted(ps, po) ==
    Outcome(ps, NoneValue, NoneValue, po.calls, <<>>, po.posted,
            IF po.raised THEN Unhandled
            ELSE Resp(200, "Saved note about {}.", <<ps[1]>>),
            NotAsked, NotAsked)

\* handle_mynotez from line 196 on: target is parts[1]; target_person and
\* note_text are parts[0] and parts[1]
NotezParsed(channel_id, ps, histReply, postReply) ==
    IF Len(ps) = 1 /\ Lower(ps[1]) = <<"g", "e", "t">>
    THEN UsageOutcome(ps, MynotezGetUsage)
    ELSE IF Lower(ps[1]) = <<"g", "e", "t">>
    THEN IF Len(ps) < 2
         THEN UsageOutcome(ps, MynotezGetUsage)
         ELSE Outcome(ps, NoneValue, NoneValue, <<"conversations.history">>,
                      <<>>, <<>>, get_notes(channel_id, ps[2], histReply),
                      NotAsked, histReply)
    ELSE IF Len(ps) < 2
    THEN UsageOutcome(ps, MynotezNoteUsage)
    ELSE NotePosted(ps,
             post_to_slack_channel(channel_id,
                 [fmt |-> "Note about {}: {}", args |-> <<ps[1], ps[2]>>],
                 postReply))

\* handle_mynotez(channel_id, text)
handle_mynotez(channel_id, text, histReply, postReply) ==
    NotezParsed(channel_id, Split(text, 1), histReply, postReply)

----------------------------------------------------------------------------
(* The inputs *)

UserIds == {<<"U", "0">>}
ChannelIds == {"C1"}
Timestamps == {"2026-01-01T00:00:00", "2026-01-01T00:00:01"}
SupportedTypes == {"application/json", "application/x-www-form-urlencoded"}
PostReplies == {"ok", "error", "raise"}

Digits == <<"1", "2", "3", "4", "5">>
Letters == <<"x", "v", "m", "n", "o", "p">>

\* the first word of a payload text: a mention, a mention without its ">",
\* a name, a lone "@", the word Get, nothing
FirstWords ==
    {<<"<", "@", "U", "7", ">">>, <<"<", "@", "U", "7">>, <<"@", "A", "b">>,
     <<"@">>, <<"G", "e", "t">>, <<>>}

Gap(k) == [i \in 1..k |-> SP]

\* the texts of n words, the words after the first being v, m, n, ...
RECURSIVE TextsOf(_)
TextsOf(n) ==
    IF n = 0 THEN {<<>>}
    ELSE IF n = 1 THEN FirstWords
    ELSE {t \o Gap(g) \o <<Letters[n]>> : t \in TextsOf(n - 1), g \in 1..MaxGap}

Texts == UNION {TextsOf(n) : n \in 0..MaxWords}

\* a member profile, as users.list lists it in place i
Member(i, kind, names) ==
    [id |-> IF kind = "slackbot" THEN USLACKBOT ELSE <<"U", Digits[i]>>,
     deleted |-> kind = "deleted",
     is_bot |-> kind = "bot",
     display_name |-> names[1],
     real_name |-> names[2],
     name |-> names[3]]

MemberLists(kinds, names) ==
    UNION {{[i \in 1..n |-> Member(i, f[i][1], f[i][2])] :
                f \in [1..n -> kinds \X names]} : n \in 0..MaxMembers}

DirReplies(kinds, names) ==
    {[kind |-> "ok", members |-> m] : m \in MemberLists(kinds, names)}
    \cup {[kind |-> "error", members |-> <<>>], [kind |-> "raise", members |-> <<>>]}

\* the workspaces the handlers are run against
TeamReplies ==
    DirReplies({"plain", "bot"}, {<<<<"A", "b">>, <<>>, <<>>>>, <<<<"b">>, <<>>, <<>>>>})

\* the workspaces the lookup alone is run against
Kinds == {"plain", "deleted", "bot", "slackbot"}
Names ==
    {<<<<"A">>, <<>>, <<>>>>, <<<<"a">>, <<"b">>, <<>>>>, <<<<"b">>, <<>>, <<"a">>>>,
     <<<<>>, <<>>, <<>>>>}
LookupReplies == DirReplies(Kinds, Names)

Strs(alphabet, n) == UNION {[1..k -> alphabet] : k \in 0..n}
Queries == Strs({"A", "b", SP}, MaxQueryLen)
ScoreStrs == Strs({"a", "b"}, MaxStrLen)

HistoryReplies ==
    {[kind |-> "ok", messages |-> m] :
        m \in {<<>>, <<<<"x", SP, "v">>>>, <<<<"m">>, <<"x", SP, "v">>>>}}
    \cup {[kind |-> "error", messages |-> <<>>], [kind |-> "raise", messages |-> <<>>]}

----------------------------------------------------------------------------
(* The state machine: slack_events serves one request at a time *)

Idle ==
    /\ pc = "idle"
    /\ request = [op |-> "none"]
    /\ parts = <<>>
    /\ found_id = NoneValue
    /\ to_mention = NoneValue
    /\ calls = <<>>
    /\ sheet = <<>>
    /\ posted = <<>>
    /\ response = NoResponse
    /\ directory = NotAsked
    /\ history = NotAsked
    /\ score = Zero

Init == Idle

\* the request is over: its outcome replaces the state
Finish(req, o) ==
    /\ pc' = "done"
    /\ request' = req
    /\ parts' = o.parts
    /\ found_id' = o.found_id
    /\ to_mention' = o.to_mention
    /\ calls' = o.calls
    /\ sheet' = o.sheet
    /\ posted' = o.posted
    /\ response' = o.response
    /\ directory' = o.directory
    /\ history' = o.history
    /\ UNCHANGED score

\* the parsed data of a command request
Req(command, text, user_id, channel_id) ==
    [op |-> "command", command |-> command, text |-> text,
     user_id |-> user_id, channel_id |-> channel_id]

\* slack_events: a content type that is neither JSON nor a form
UnsupportedContentType ==
    /\ pc = "idle"
    /\ \E text \in Texts :
          Finish([op |-> "unsupported", content_type |-> "text/plain", text |-> text],
                 Outcome(<<>>, NoneValue, NoneValue, <<>>, <<>>, <<>>,
                         Resp(415, "Unsupported content type", <<>>),
                         NotAsked, NotAsked))

\* slack_events: the URL verification challenge
Challenge ==
    /\ pc = "idle"
    /\ \E ct \in SupportedTypes, c \in {<<"x">>, <<"v", "m">>} :
          Finish([op |-> "challenge", content_type |-> ct, challenge |-> c],
                 Outcome(<<>>, NoneValue, NoneValue, <<>>, <<>>, <<>>,
                         Resp(200, "{\"challenge\": {}}", <<c>>),
                         NotAsked, NotAsked))

\* slack_events: command == '/mypraise'
Mypraise ==
    /\ pc = "idle"
    /\ \E ct \in SupportedTypes, text \in Texts, u \in UserIds, ch \in ChannelIds,
          dirReply \in TeamReplies, now \in Timestamps, appendOk \in BOOLEAN,
          postReply \in PostReplies :
          Finish(Req("/mypraise", text, u, ch),
                 handle_mypraise(u, text, dirReply, now, appendOk, postReply))

\* slack_events: command == '/myfeedback'
Myfeedback ==
    /\ pc = "idle"
    /\ \E ct \in SupportedTypes, text \in Texts, u \in UserIds, ch \in ChannelIds,
          dirReply \in TeamReplies, now \in Timestamps, appendOk \in BOOLEAN :
          Finish(Req("/myfeedback", text, u, ch),
                 handle_myfeedback(u, text, dirReply, now, appendOk))

\* slack_events: command == '/mynotez'
Mynotez ==
    /\ pc = "idle"
    /\ \E ct \in SupportedTypes, text \in Texts, u \in UserIds, ch \in ChannelIds,
          histReply \in HistoryReplies, postReply \in PostReplies :
          Finish(Req("/mynotez", text, u, ch),
                 handle_mynotez(ch, text, histReply, postReply))

\* slack_events: any other command
UnknownCommand ==
    /\ pc = "idle"
    /\ \E ct \in SupportedTypes, text \in Texts, u \in UserIds, ch \in ChannelIds :
          Finish(Req("/mytest", text, u, ch),
                 Outcome(<<>>, NoneValue, NoneValue, <<>>, <<>>, <<>>,
                         Resp(200, "Unknown command", <<>>), NotAsked, NotAsked))

\* the response is sent and the server waits for the next request; nothing
\* of the request is kept
AwaitRequest ==
    /\ pc = "done"
    /\ pc' = "idle"
    /\ request' = [op |-> "none"]
    /\ parts' = <<>>
    /\ found_id' = NoneValue
    /\ to_mention' = NoneValue
    /\ calls' = <<>>
    /\ sheet' = <<>>
    /\ posted' = <<>>
    /\ response' = NoResponse
    /\ directory' = NotAsked
    /\ history' = NotAsked
    /\ score' = Zero

Next ==
    \/ UnsupportedContentType
    \/ Challenge
    \/ Mypraise
    \/ Myfeedback
    \/ Mynotez
    \/ UnknownCommand
    \/ AwaitRequest

Spec == Init /\ [][Next]_vars

----------------------------------------------------------------------------
(* The lookup alone, over every query and workspace *)

\* the call has returned r, or raised
Returned(r, reply) ==
    Outcome(<<>>, r.id, NoneValue, <<"users.list">>, <<>>, <<>>,
            IF r.raised THEN Unhandled ELSE NoResponse, reply, NotAsked)

FindUser ==
    /\ pc = "idle"
    /\ \E name \in Queries, reply \in LookupReplies :
          Finish([op |-> "find", name |-> name],
                 Returned(find_user_id_by_display_name(name, reply), reply))

NextFind == FindUser \/ AwaitRequest

SpecFind == Init /\ [][NextFind]_vars

----------------------------------------------------------------------------
(* The similarity ratio alone, over every pair of strings *)

ScorePair ==
    /\ pc = "idle"
    /\ \E a \in ScoreStrs, b \in ScoreStrs :
          /\ pc' = "done"
          /\ request' = [op |-> "ratio", a |-> a, b |-> b]
          /\ score' = Ratio(a, b)
          /\ UNCHANGED <<parts, found_id, to_mention, calls, sheet, posted,
                         response, directory, history>>

NextScore == ScorePair \/ AwaitRequest

SpecScore == Init /\ [][NextScore]_vars

----------------------------------------------------------------------------
(* What the properties speak of *)

Handled(commands) ==
    pc = "done" /\ request.op = "command" /\ request.command \in commands

\* the person token of the request
Token == parts[1]

\* the token begins with "<@U" and ends with ">"
TokenIsMention ==
    /\ Len(Token) >= 4
    /\ Token[1] = "<" /\ Token[2] = "@" /\ Token[3] = "U"
    /\ Token[Len(Token)] = ">"

\* the command got the fields it requires
ArgsOk ==
    \/ request.command = "/mypraise" /\ Len(parts) >= 3
    \/ request.command = "/myfeedback" /\ Len(parts) >= 2

Called(api) == \E i \in 1..Len(calls) : calls[i] = api

\* the places of the listing whose profile passes the exclusions and the
\* two-way containment test against the query
Retained(query, members) ==
    {i \in 1..Len(members) :
        /\ ~members[i].deleted
        /\ ~members[i].is_bot
        /\ members[i].id # USLACKBOT
        /\ \/ IsIn(Lower(query), combo_str(members[i]))
           \/ IsIn(combo_str(members[i]), Lower(query))}

ScoreOf(query, member) == Ratio(Lower(query), combo_str(member))

Looked == pc = "done" /\ request.op = "find" /\ directory.kind = "ok"

Scored == pc = "done" /\ request.op = "ratio"

----------------------------------------------------------------------------
(* C1: when the person token of /mypraise or /myfeedback begins with "<@U"  *)
(* and ends with ">", the user id is the token without its first two and    *)
(* its last character, the token itself is the target mention (also in the  *)
(* ledger row), and users.list is not called.                               *)
ExactMentionFastPath ==
    (Handled({"/mypraise", "/myfeedback"}) /\ ArgsOk /\ TokenIsMention) =>
        /\ found_id = SubSeq(Token, 3, Len(Token) - 1)
        /\ to_mention = Token
        /\ ~Called("users.list")
        /\ directory = NotAsked
        /\ \A i \in 1..Len(sheet) : sheet[i][3] = Token

ExactMentionWitness ==
    /\ Handled({"/myfeedback"}) /\ ArgsOk /\ TokenIsMention
    /\ found_id = <<"U", "7">>
    /\ Len(sheet) = 1

(* C2: when the lookup returns a user, that user is a retained candidate    *)
(* whose score is maximal among the retained candidates and, among those    *)
(* with that score, the earliest in the listing.                            *)
BestCandidateFirstOnTies ==
    (Looked /\ found_id # NoneValue) =>
        \E i \in Retained(request.name, directory.members) :
            /\ directory.members[i].id = found_id
            /\ \A j \in Retained(request.name, directory.members) :
                  /\ ~RatioGT(ScoreOf(request.name, directory.members[j]),
                              ScoreOf(request.name, directory.members[i]))
                  /\ RatioEQ(ScoreOf(request.name, directory.members[j]),
                             ScoreOf(request.name, directory.members[i])) => i <= j

TieWitness ==
    /\ Looked
    /\ Retained(request.name, directory.members) = {1, 2}
    /\ RatioEQ(ScoreOf(request.name, directory.members[1]),
               ScoreOf(request.name, directory.members[2]))
    /\ directory.members[1].display_name # directory.members[2].display_name
    /\ found_id = directory.members[1].id

(* C3, as claimed: whenever a profile is retained as a candidate, the       *)
(* lookup returns the id of a candidate.                                    *)
AnyRetainedCandidateWins ==
    (Looked /\ Retained(request.name, directory.members) # {}) =>
        \E i \in Retained(request.name, directory.members) :
            directory.members[i].id = found_id

(* C3, amended: the lookup returns the id of a retained candidate exactly   *)
(* when some retained candidate has a score above 0, however low; when      *)
(* every retained candidate scores 0 it returns no user id.                 *)
AnyPositiveCandidateWins ==
    Looked =>
        /\ (found_id # NoneValue) <=>
              \E i \in Retained(request.name, directory.members) :
                  RatioGT(ScoreOf(request.name, directory.members[i]), Zero)
        /\ found_id # NoneValue =>
              \E i \in Retained(request.name, directory.members) :
                  directory.members[i].id = found_id

WeakCandidateWitness ==
    /\ Looked
    /\ Retained(request.name, directory.members) = {1}
    /\ ~RatioGT(ScoreOf(request.name, directory.members[1]), <<2, 5>>)
    /\ found_id = directory.members[1].id

(* C4: the lookup never returns the id of a profile flagged deleted or      *)
(* is_bot, nor USLACKBOT.                                                   *)
ExcludedNeverSelected ==
    Looked =>
        /\ found_id # USLACKBOT
        /\ \A i \in 1..Len(directory.members) :
              directory.members[i].id = found_id =>
                  ~directory.members[i].deleted /\ ~directory.members[i].is_bot

ExcludedPerfectMatchWitness ==
    /\ Looked
    /\ Len(directory.members) = 1
    /\ directory.members[1].is_bot
    /\ combo_str(directory.members[1]) = Lower(request.name)
    /\ found_id = NoneValue

(* C5: when the person token is not an exact mention and no profile is      *)
(* retained, there is no user id and the target mention is the token       *)
(* unchanged, leading "@" included; the handler goes on to the ledger       *)
(* append and, for /mypraise, the post, each carrying the token.            *)
MissFallsBackToToken ==
    (/\ Handled({"/mypraise", "/myfeedback"}) /\ ArgsOk /\ ~TokenIsMention
     /\ directory.kind \in {"ok", "error"}
     /\ Retained(LStripAt(Token), directory.members) = {}) =>
        /\ found_id = NoneValue
        /\ to_mention = Token
        /\ Len(calls) >= 2 /\ calls[1] = "users.list" /\ calls[2] = "append_row"
        /\ \A i \in 1..Len(sheet) : sheet[i][3] = Token
        /\ \A i \in 1..Len(posted) : posted[i].text.args[2] = Token
        /\ ~response.unhandled =>
              /\ Len(sheet) = 1
              /\ response.status = 200
              /\ request.command = "/mypraise" => Called("chat.postMessage")

MissWitness ==
    /\ Handled({"/mypraise"}) /\ ArgsOk
    /\ Token = <<"@", "A", "b">>
    /\ directory.kind = "ok" /\ Len(directory.members) = 2
    /\ found_id = NoneValue
    /\ Len(sheet) = 1 /\ Len(posted) = 1
    /\ posted[1].text.args[2] = <<"@", "A", "b">>

(* C6: when the text yields fewer fields than the command requires, the     *)
(* response is 200 with the command's usage string and no external call     *)
(* was made.                                                                *)
UsageWithoutSideEffect ==
    /\ (Handled({"/mypraise"}) /\ Len(parts) < 3) =>
          /\ response = Resp(200, MypraiseUsage, <<>>)
          /\ calls = <<>> /\ sheet = <<>> /\ posted = <<>>
    /\ (Handled({"/myfeedback"}) /\ Len(parts) < 2) =>
          /\ response = Resp(200, MyfeedbackUsage, <<>>)
          /\ calls = <<>> /\ sheet = <<>> /\ posted = <<>>
    /\ (Handled({"/mynotez"}) /\ Len(parts) < 2) =>
          /\ response \in {Resp(200, MynotezGetUsage, <<>>),
                           Resp(200, MynotezNoteUsage, <<>>)}
          /\ calls = <<>> /\ sheet = <<>> /\ posted = <<>>

UsageWitness ==
    /\ Handled({"/mypraise"})
    /\ Len(parts) = 2
    /\ response.fmt = MypraiseUsage

(* C7: /myfeedback never posts a message; its only write, when the          *)
(* arguments suffice, is the one ledger row ["feedback", "<@" + user_id +   *)
(* ">", target mention, "", message, timestamp].                            *)
FeedbackIsLedgerOnly ==
    Handled({"/myfeedback"}) =>
        /\ posted = <<>>
        /\ ~Called("chat.postMessage")
        /\ Len(sheet) <= 1
        /\ \A i \in 1..Len(sheet) :
              \E now \in Timestamps :
                  sheet[i] = <<"feedback", <<"<", "@">> \o request.user_id \o <<">">>,
                               to_mention, <<>>, parts[2], now>>
        /\ (ArgsOk /\ ~response.unhandled) => Len(sheet) = 1
        /\ ~ArgsOk => sheet = <<>>

FeedbackWitness ==
    /\ Handled({"/myfeedback"}) /\ ArgsOk
    /\ Len(sheet) = 1
    /\ found_id = <<"U", "1">>
    /\ response.fmt = "Feedback saved (private)."

(* C8: whatever collaborator call fails while a command is handled, by an   *)
(* error in the reply or by raising, the request ends in a textual response *)
(* of the handler and no error leaves the handler.                          *)
NoFailureEscapes ==
    pc = "done" => ~response.unhandled

(* C9: /mypraise splits the text on its first two runs of spaces and        *)
(* /myfeedback on its first run, so several spaces between two fields       *)
(* separate like one.                                                       *)
SplitsOnWhitespaceRuns ==
    /\ (Handled({"/mypraise"}) /\ request.text # <<>> /\ Head(request.text) # SP) =>
          parts = SplitRuns(request.text, 2)
    /\ (Handled({"/myfeedback"}) /\ request.text # <<>> /\ Head(request.text) # SP) =>
          parts = SplitRuns(request.text, 1)

(* C10, as claimed: the ratio of a and b equals the ratio of b and a.       *)
RatioSymmetric ==
    Scored => RatioEQ(score, Ratio(request.b, request.a))

(* C10, amended: the ratio of a and b equals the ratio of b and a whenever  *)
(* one of the two strings contains the other, which is the case of every    *)
(* pair the lookup scores.                                                  *)
RatioSymmetricUnderContainment ==
    (Scored /\ (IsIn(request.a, request.b) \/ IsIn(request.b, request.a))) =>
        RatioEQ(score, Ratio(request.b, request.a))

ContainmentWitness ==
    /\ Scored
    /\ request.a = <<"a", "b">>
    /\ request.b = <<"a", "a", "b">>
    /\ score = <<4, 5>>

====
